---- MODULE Spec2Model ----
(***************************************************************************)
(* Model of the Discord LLM bot's conversation memory (MemoryManager,      *)
(* src/models/memory.py), of the prompt composition in                     *)
(* LLMClient.generate_response (src/models/llm.py) and of the command      *)
(* handlers that drive them (src/commands/*.py).                           *)
(*                                                                         *)
(* MemoryManager has two storage backends selected by STORAGE_TYPE.  The   *)
(* model keeps one store of each kind, db (sqlite) and js (json), and      *)
(* applies every operation to both, so that the two backends can be        *)
(* compared state by state.                                                *)
(*                                                                         *)
(* Representation.                                                         *)
(*  - A table, and a Python dict, is a sequence of rows in rowid order,    *)
(*    resp. insertion order.                                               *)
(*  - A text whose shape the code inspects (message contents, the system   *)
(*    prompt) is a sequence of string tokens: f"[{username}]: {content}"   *)
(*    is <<Tag(username)>> \o content and startswith tests the first       *)
(*    token.                                                               *)
(*  - A Python value given to the metadata store is a pair <<type, text>>  *)
(*    where text is the JSON text of the value (for a str: its characters).*)
(*  - The fields created_at and updated_at, and the timestamp and username *)
(*    copies inside a json message object, are written but read by no      *)
(*    operation; they are left out.                                        *)
(*  - datetime.now() is the variable clock, which never decreases and may  *)
(*    stay equal between two calls.                                        *)
(*  - User ids are shorter than 8 characters, so the user_id[:8] of the    *)
(*    placeholder name is the whole id.                                    *)
(*                                                                         *)
(* Spec drives the public methods of MemoryManager directly; SpecBot       *)
(* drives them through the command handlers, an ask being suspended at     *)
(* typing() while other handlers run.                                      *)
(***************************************************************************)
EXTENDS Naturals, Sequences, FiniteSets, TLC

VARIABLES
    db,                  \* the sqlite store: users, messages, user_metadata
    js,                  \* the json store: the document of memory.json
    clock,               \* the value datetime.now() yields
    MAX_CONTEXT_LENGTH,  \* utils/config.py: the configured retention bound
    appended,            \* per backend and user, the messages appended since the history was last cleared
    pending,             \* ask handlers suspended at `async with typing()`
    nops                 \* number of operations performed so far

vars == <<db, js, clock, MAX_CONTEXT_LENGTH, appended, pending, nops>>

(***************************************************************************)
(* Bounds of the model.                                                    *)
(***************************************************************************)
CtxLen == 2        \* MAX_CONTEXT_LENGTH is configured in 1..CtxLen
MaxClock == 1      \* the clock takes the values 0..MaxClock
MaxOps == 3        \* operations per behaviour
MaxCmds == 3       \* handler segments per behaviour of the bot
MaxInFlight == 2   \* ask handlers in flight at once
LongCtx == 4       \* MAX_CONTEXT_LENGTH of the long conversations
MaxLong == 5       \* messages per behaviour of the long conversations

Users == {"u1", "u2"}
Speakers == Users \cup {"u3"}   \* the users of the long conversations
Names == {"al"}
Keys == {"slap_count"}
Roles == {"user", "assistant", "system"}
Texts == {<<"hi">>, <<"yo">>}
PersonalityIds == {"default", "sarcastic", "bogus"}

\* Python's None, for an optional str argument and for a missing result.
None == "None"

(***************************************************************************)
(* Sequence helpers.                                                       *)
(***************************************************************************)
\* Python s[-n:] : the last n elements; s[-0:] is s[0:], the whole list.
PySliceLast(s, n) ==
    IF n = 0 \/ n >= Len(s) THEN s ELSE SubSeq(s, Len(s) - n + 1, Len(s))

\* s without its first n elements (SQL LIMIT -1 OFFSET n).
Offset(s, n) == IF n >= Len(s) THEN <<>> ELSE SubSeq(s, n + 1, Len(s))

\* The subsequence of s at the indices in I, in order, from index i on.
RECURSIVE Pick(_, _, _)
Pick(s, I, i) ==
    IF i > Len(s) THEN <<>>
    ELSE (IF i \in I THEN <<s[i]>> ELSE <<>>) \o Pick(s, I, i + 1)

\* The elements of a sequence, as a set.
Range(s) == {s[i] : i \in 1..Len(s)}

\* f"User_{user_id[:8]}"
Placeholder(user_id) == "User_" \o user_id

\* f"[{username}]: "
Tag(username) == "[" \o username \o "]: "

(***************************************************************************)
(* The sqlite backend.  db.users, db.messages and db.user_metadata are the *)
(* three tables of _init_sqlite, each a sequence of rows in rowid order.   *)
(* A row of messages is named by its position (its id orders the same).    *)
(***************************************************************************)
EmptyDb == [users |-> <<>>, messages |-> <<>>, user_metadata |-> <<>>]

\* The positions of the rows of a table that belong to user_id.
RowsOf(table, user_id) == {i \in 1..Len(table) : table[i].user_id = user_id}

\* SELECT ... FROM users WHERE user_id = ? : fetchone() is not None
sq_user_exists(d, user_id) == RowsOf(d.users, user_id) # {}

\* The users row of user_id (user_id is the primary key).
sq_user(d, user_id) == d.users[CHOOSE i \in RowsOf(d.users, user_id) : TRUE]

\* INSERT INTO users (user_id, username, personality, ...)
sq_insert_user(d, user_id, username, personality) ==
    [d EXCEPT !.users = Append(@,
        [user_id |-> user_id, username |-> username, personality |-> personality])]

\* UPDATE users SET username = ? WHERE user_id = ?
sq_set_username(d, user_id, username) ==
    [d EXCEPT !.users = [i \in 1..Len(@) |->
        IF @[i].user_id = user_id THEN [@[i] EXCEPT !.username = username] ELSE @[i]]]

\* UPDATE users SET personality = ? WHERE user_id = ?
sq_set_personality(d, user_id, personality) ==
    [d EXCEPT !.users = [i \in 1..Len(@) |->
        IF @[i].user_id = user_id THEN [@[i] EXCEPT !.personality = personality] ELSE @[i]]]

\* The sorter of SQLite keeps rows with equal keys in scan (rowid) order, for
\* ASC and for DESC alike.  Insert position i of table into the ordered list
\* of positions, after every position that does not sort after it.
RECURSIVE InsertAsc(_, _, _)
InsertAsc(table, sorted, i) ==
    IF sorted = <<>> THEN <<i>>
    ELSE IF table[Head(sorted)].timestamp <= table[i].timestamp
         THEN <<Head(sorted)>> \o InsertAsc(table, Tail(sorted), i)
         ELSE <<i>> \o sorted

RECURSIVE InsertDesc(_, _, _)
InsertDesc(table, sorted, i) ==
    IF sorted = <<>> THEN <<i>>
    ELSE IF table[Head(sorted)].timestamp >= table[i].timestamp
         THEN <<Head(sorted)>> \o InsertDesc(table, Tail(sorted), i)
         ELSE <<i>> \o sorted

\* ORDER BY timestamp ASC over the positions in I, scanned from position i.
RECURSIVE OrderByTimestampAsc(_, _, _)
OrderByTimestampAsc(table, I, i) ==
    IF i = 0 THEN <<>>
    ELSE IF i \in I THEN InsertAsc(table, OrderByTimestampAsc(table, I, i - 1), i)
         ELSE OrderByTimestampAsc(table, I, i - 1)

\* ORDER BY timestamp DESC over the positions in I, scanned from position i.
RECURSIVE OrderByTimestampDesc(_, _, _)
OrderByTimestampDesc(table, I, i) ==
    IF i = 0 THEN <<>>
    ELSE IF i \in I THEN InsertDesc(table, OrderByTimestampDesc(table, I, i - 1), i)
         ELSE OrderByTimestampDesc(table, I, i - 1)

(***************************************************************************)
(* Python values and their JSON text (json.dumps, json.loads).  A value is *)
(* <<type, text>>; JsonValues are the values the model's texts can parse   *)
(* to.                                                                     *)
(***************************************************************************)
\* The ints the model's counters and inputs reach.
Ints == 0..(MaxOps + MaxCmds)

PyInt(n) == <<"int", ToString(n)>>
PyStr(s) == <<"str", s>>
PyNone == <<"NoneType", "null">>

\* The int a PyInt holds.
IntOf(v) == CHOOSE n \in Ints : ToString(n) = v[2]

JsonValues ==
    {PyInt(n) : n \in Ints}
        \cup {PyStr("3"), PyStr("abc"), PyStr("null"), PyStr("")}
        \cup {<<"bool", "true">>, <<"bool", "false">>, PyNone}
        \cup {<<"list", "[1]">>, <<"dict", "{\"a\": 1}">>}

\* json.dumps(value): a str is written between quotes, every other value as
\* its JSON text.
json_dumps(value) ==
    IF value[1] = "str" THEN "\"" \o value[2] \o "\"" ELSE value[2]

JSONDecodeError == <<"JSONDecodeError", "">>

\* json.loads(text): the value whose JSON text is `text`, or JSONDecodeError.
json_loads(text) ==
    IF \E v \in JsonValues : json_dumps(v) = text
    THEN CHOOSE v \in JsonValues : json_dumps(v) = text
    ELSE JSONDecodeError

\* isinstance(value, str)
IsStr(value) == value[1] = "str"

\* Python truth of an Optional[str] argument: `if username:`
Truthy(x) == x # None /\ x # ""

\* Python truth of a value: `value or 0`, `if llm_response:`
PyTruthy(value) ==
    /\ value # PyNone
    /\ value # <<"bool", "false">>
    /\ value # PyInt(0)
    /\ value # PyStr("")

(***************************************************************************)
(* MemoryManager on the sqlite backend.  An operation yields               *)
(* [st |-> the store after it, ret |-> what it returns].                   *)
(***************************************************************************)
\* A lookup that answers 'default' for an unknown user without the INSERT of
\* lines 111-116: lazy creation must tell it from sq_get_user_personality.
sq_get_user_personality_no_insert(d, user_id) ==
    [st |-> d,
     ret |-> IF sq_user_exists(d, user_id) THEN sq_user(d, user_id).personality
             ELSE "default"]

sq_get_user_personality(d, user_id) ==
    IF sq_user_exists(d, user_id)
    THEN [st |-> d, ret |-> sq_user(d, user_id).personality]
    ELSE [st |-> sq_insert_user(d, user_id, Placeholder(user_id), "default"),
          ret |-> "default"]

sq_set_user_personality(d, user_id, personality) ==
    IF sq_user_exists(d, user_id)
    THEN sq_set_personality(d, user_id, personality)
    ELSE sq_insert_user(d, user_id, Placeholder(user_id), personality)

sq_update_username(d, user_id, username) ==
    IF sq_user_exists(d, user_id)
    THEN sq_set_username(d, user_id, username)
    ELSE sq_insert_user(d, user_id, username, "default")

sq_get_username(d, user_id) ==
    IF sq_user_exists(d, user_id)
    THEN sq_user(d, user_id).username
    ELSE Placeholder(user_id)

\* A dict in insertion order: a sequence of <<user_id, username>>.
sq_get_all_usernames(d) ==
    [i \in 1..Len(d.users) |-> <<d.users[i].user_id, d.users[i].username>>]

sq_ensure_user_exists(d, user_id, username) ==
    IF ~sq_user_exists(d, user_id)
    THEN sq_insert_user(d, user_id,
            IF Truthy(username) THEN username ELSE Placeholder(user_id), "default")
    ELSE IF Truthy(username) THEN sq_set_username(d, user_id, username)
         ELSE d

\* add_message up to its first commit: the username update, the user row and
\* the INSERT INTO messages.
sq_insert_message(d, user_id, role, content, username, now) ==
    LET d1 == IF Truthy(username) THEN sq_update_username(d, user_id, username) ELSE d
        name == IF Truthy(username) THEN username ELSE sq_get_username(d, user_id)
        d2 == sq_ensure_user_exists(d1, user_id, name)
    IN  [d2 EXCEPT !.messages = Append(@,
            [user_id |-> user_id, role |-> role, content |-> content, timestamp |-> now])]

\* A trim with OFFSET max + 1, which keeps one row more: the retention
\* invariant must tell it from sq_trim.
sq_trim_offset_plus_one(d, user_id, max) ==
    LET mine == RowsOf(d.messages, user_id)
        ordered == OrderByTimestampDesc(d.messages, mine, Len(d.messages))
        deleted == Range(Offset(ordered, max + 1))
    IN  [d EXCEPT !.messages = Pick(@, (1..Len(@)) \ deleted, 1)]

\* DELETE FROM messages WHERE id IN (SELECT id FROM messages WHERE user_id = ?
\*                                   ORDER BY timestamp DESC LIMIT -1 OFFSET ?)
sq_trim(d, user_id, max) ==
    LET mine == RowsOf(d.messages, user_id)
        ordered == OrderByTimestampDesc(d.messages, mine, Len(d.messages))
        deleted == Range(Offset(ordered, max))
    IN  [d EXCEPT !.messages = Pick(@, (1..Len(@)) \ deleted, 1)]

sq_add_message(d, user_id, role, content, username, now, max) ==
    sq_trim(sq_insert_message(d, user_id, role, content, username, now), user_id, max)

\* if msg['role'] == 'user' and not content.startswith(f"[{username}]: "): prefix it
WithUsername(msg, username) ==
    IF msg.role = "user" /\ ~(Len(msg.content) > 0 /\ msg.content[1] = Tag(username))
    THEN [msg EXCEPT !.content = <<Tag(username)>> \o @]
    ELSE msg

\* SELECT role, content FROM messages WHERE user_id = ? ORDER BY timestamp ASC
sq_rows_of(d, user_id) ==
    LET ordered == OrderByTimestampAsc(d.messages, RowsOf(d.messages, user_id), Len(d.messages))
    IN  [i \in 1..Len(ordered) |->
            [role |-> d.messages[ordered[i]].role, content |-> d.messages[ordered[i]].content]]

sq_get_conversation_history(d, user_id, include_usernames) ==
    LET messages == sq_rows_of(d, user_id)
    IN  IF include_usernames
        THEN [i \in 1..Len(messages) |-> WithUsername(messages[i], sq_get_username(d, user_id))]
        ELSE messages

\* The user ids of the rows at the positions `ordered`, each once, in order of
\* first appearance.
RECURSIVE FirstSeen(_, _, _)
FirstSeen(table, ordered, seen) ==
    IF ordered = <<>> THEN <<>>
    ELSE IF table[Head(ordered)].user_id \in seen
         THEN FirstSeen(table, Tail(ordered), seen)
         ELSE <<table[Head(ordered)].user_id>>
                \o FirstSeen(table, Tail(ordered), seen \cup {table[Head(ordered)].user_id})

\* for user_id, role, content in rows: conversations[user_id].append(...),
\* the rows at the positions `ordered` of one user, in that order.
Grouped(table, ordered, user_id) ==
    LET mine == Pick(ordered, {i \in 1..Len(ordered) : table[ordered[i]].user_id = user_id}, 1)
    IN  [i \in 1..Len(mine) |->
            [role |-> table[mine[i]].role, content |-> table[mine[i]].content]]

\* A read that takes the rows newest first: the agreement of
\* get_all_conversations with get_conversation_history must tell it from
\* sq_get_all_conversations.
sq_get_all_conversations_newest_first(d) ==
    LET ordered == OrderByTimestampDesc(d.messages, 1..Len(d.messages), Len(d.messages))
        uids == FirstSeen(d.messages, ordered, {})
    IN  [i \in 1..Len(uids) |-> <<uids[i], Grouped(d.messages, ordered, uids[i])>>]

\* SELECT user_id, role, content FROM messages ORDER BY timestamp ASC, grouped
\* by user: a dict in insertion order, a sequence of <<user_id, history>>.
sq_get_all_conversations(d) ==
    LET ordered == OrderByTimestampAsc(d.messages, 1..Len(d.messages), Len(d.messages))
        uids == FirstSeen(d.messages, ordered, {})
    IN  [i \in 1..Len(uids) |-> <<uids[i], Grouped(d.messages, ordered, uids[i])>>]

\* The positions of the user_metadata rows of (user_id, key).
MetaRows(table, user_id, key) ==
    {i \in 1..Len(table) : table[i].user_id = user_id /\ table[i].key = key}

sq_get_user_metadata(d, user_id, key) ==
    LET d1 == sq_ensure_user_exists(d, user_id, None)
        hit == MetaRows(d1.user_metadata, user_id, key)
        text == d1.user_metadata[CHOOSE i \in hit : TRUE].value
    IN  [st |-> d1,
         ret |-> IF hit = {} THEN PyNone
                 ELSE IF json_loads(text) = JSONDecodeError THEN PyStr(text)
                      ELSE json_loads(text)]

sq_set_user_metadata(d, user_id, key, value) ==
    LET d1 == sq_ensure_user_exists(d, user_id, None)
        text == IF IsStr(value) THEN value[2] ELSE json_dumps(value)
        hit == MetaRows(d1.user_metadata, user_id, key)
    IN  IF hit = {}
        THEN [d1 EXCEPT !.user_metadata = Append(@,
                [user_id |-> user_id, key |-> key, value |-> text])]
        ELSE [d1 EXCEPT !.user_metadata = [i \in 1..Len(@) |->
                IF i \in hit THEN [@[i] EXCEPT !.value = text] ELSE @[i]]]

\* INSERT INTO users: user_id is the PRIMARY KEY, so the insert of an existing
\* user raises sqlite3.IntegrityError and leaves the table as it was.
sq_initialize_user(d, user_id, username) ==
    IF sq_user_exists(d, user_id) THEN d
    ELSE sq_insert_user(d, user_id, username, "default")

\* A reset that deletes the metadata rows along with the messages: the frame
\* of reset must tell it from sq_reset_user_memory.
sq_reset_user_memory_and_metadata(d, user_id) ==
    [d EXCEPT !.messages = Pick(@, (1..Len(@)) \ RowsOf(@, user_id), 1),
              !.user_metadata = Pick(@, (1..Len(@)) \ RowsOf(@, user_id), 1)]

sq_reset_user_memory(d, user_id) ==
    [d EXCEPT !.messages = Pick(@, (1..Len(@)) \ RowsOf(@, user_id), 1)]

\* A delete without `DELETE FROM user_metadata`: delete must tell it from
\* sq_delete_user_data.
sq_delete_user_data_keeping_metadata(d, user_id) ==
    [d EXCEPT !.users = Pick(@, (1..Len(@)) \ RowsOf(@, user_id), 1),
              !.messages = Pick(@, (1..Len(@)) \ RowsOf(@, user_id), 1)]

sq_delete_user_data(d, user_id) ==
    [users |-> Pick(d.users, (1..Len(d.users)) \ RowsOf(d.users, user_id), 1),
     messages |-> Pick(d.messages, (1..Len(d.messages)) \ RowsOf(d.messages, user_id), 1),
     user_metadata |-> Pick(d.user_metadata,
                            (1..Len(d.user_metadata)) \ RowsOf(d.user_metadata, user_id), 1)]

(***************************************************************************)
(* MemoryManager on the json backend.  The document is a dict keyed by     *)
(* user_id: a sequence of user records in insertion order.  Every          *)
(* operation loads the whole file and, when it writes, saves the whole     *)
(* file, within one synchronous call.  A metadata value is held as the     *)
(* JSON text json.dump writes for it and json.load reads back.             *)
(***************************************************************************)
EmptyJs == <<>>

\* user_id in data
js_user_exists(data, user_id) == RowsOf(data, user_id) # {}

\* data[user_id]
js_user(data, user_id) == data[CHOOSE i \in RowsOf(data, user_id) : TRUE]

\* data[user_id] = {...}: a new key goes last, an existing key keeps its place.
js_put_user(data, user_id, record) ==
    IF js_user_exists(data, user_id)
    THEN [i \in 1..Len(data) |-> IF data[i].user_id = user_id THEN record ELSE data[i]]
    ELSE Append(data, record)

NewRecord(user_id, username, personality, metadata) ==
    [user_id |-> user_id, username |-> username, personality |-> personality,
     messages |-> <<>>, metadata |-> metadata]

js_get_user_personality(data, user_id) ==
    IF js_user_exists(data, user_id)
    THEN [st |-> data, ret |-> js_user(data, user_id).personality]
    ELSE [st |-> js_put_user(data, user_id,
                    NewRecord(user_id, Placeholder(user_id), "default", <<>>)),
          ret |-> "default"]

js_set_user_personality(data, user_id, personality) ==
    IF js_user_exists(data, user_id)
    THEN js_put_user(data, user_id,
            [js_user(data, user_id) EXCEPT !.personality = personality])
    ELSE js_put_user(data, user_id,
            NewRecord(user_id, Placeholder(user_id), personality, <<>>))

js_update_username(data, user_id, username) ==
    IF js_user_exists(data, user_id)
    THEN js_put_user(data, user_id, [js_user(data, user_id) EXCEPT !.username = username])
    ELSE js_put_user(data, user_id, NewRecord(user_id, username, "default", <<>>))

js_get_username(data, user_id) ==
    IF js_user_exists(data, user_id)
    THEN js_user(data, user_id).username
    ELSE Placeholder(user_id)

js_get_all_usernames(data) ==
    [i \in 1..Len(data) |-> <<data[i].user_id, data[i].username>>]

js_add_message(data, user_id, role, content, username, now, max) ==
    LET data1 == IF Truthy(username) THEN js_update_username(data, user_id, username)
                 ELSE data
        name == IF Truthy(username) THEN username ELSE js_get_username(data, user_id)
        data2 == IF js_user_exists(data1, user_id) THEN data1
                 ELSE js_put_user(data1, user_id, NewRecord(user_id, name, "default", <<>>))
        messages == Append(js_user(data2, user_id).messages,
                           [role |-> role, content |-> content])
        trimmed == IF Len(messages) > max THEN PySliceLast(messages, max) ELSE messages
    IN  js_put_user(data2, user_id, [js_user(data2, user_id) EXCEPT !.messages = trimmed])

\* A read that prefixes the user messages whatever include_usernames says,
\* as if an earlier prefixed read had been written back: message
\* immutability must tell it from js_get_conversation_history.
js_get_conversation_history_always_tagged(data, user_id, include_usernames) ==
    IF ~js_user_exists(data, user_id) THEN <<>>
    ELSE LET messages == js_user(data, user_id).messages
         IN  [i \in 1..Len(messages) |->
                 WithUsername(messages[i], js_get_username(data, user_id))]

js_get_conversation_history(data, user_id, include_usernames) ==
    IF ~js_user_exists(data, user_id) THEN <<>>
    ELSE LET messages == js_user(data, user_id).messages
         IN  IF include_usernames
             THEN [i \in 1..Len(messages) |->
                     WithUsername(messages[i], js_get_username(data, user_id))]
             ELSE messages

js_get_all_conversations(data) ==
    [i \in 1..Len(data) |-> <<data[i].user_id, data[i].messages>>]

\* The positions of the entries of a metadata dict under `key`.
KeyRows(metadata, key) == {i \in 1..Len(metadata) : metadata[i].key = key}

\* Every record is created with a 'metadata' entry, so the branch that adds a
\* missing one is never taken.
js_get_user_metadata(data, user_id, key) ==
    [st |-> data,
     ret |-> IF ~js_user_exists(data, user_id) THEN PyNone
             ELSE LET metadata == js_user(data, user_id).metadata
                      hit == KeyRows(metadata, key)
                  IN  IF hit = {} THEN PyNone
                      ELSE json_loads(metadata[CHOOSE i \in hit : TRUE].value)]

js_set_user_metadata(data, user_id, key, value) ==
    LET entry == [key |-> key, value |-> json_dumps(value)]
    IN  IF ~js_user_exists(data, user_id)
        THEN js_put_user(data, user_id,
                NewRecord(user_id, Placeholder(user_id), "default", <<entry>>))
        ELSE LET metadata == js_user(data, user_id).metadata
                 hit == KeyRows(metadata, key)
                 updated == IF hit = {} THEN Append(metadata, entry)
                            ELSE [i \in 1..Len(metadata) |->
                                    IF i \in hit THEN entry ELSE metadata[i]]
             IN  js_put_user(data, user_id,
                    [js_user(data, user_id) EXCEPT !.metadata = updated])

js_initialize_user(data, user_id, username) ==
    js_put_user(data, user_id, NewRecord(user_id, username, "default", <<>>))

\* A reset that empties the messages of every record of the file: per-user
\* isolation must tell it from js_reset_user_memory.
js_reset_user_memory_everyone(data, user_id) ==
    IF js_user_exists(data, user_id)
    THEN [i \in 1..Len(data) |-> [data[i] EXCEPT !.messages = <<>>]]
    ELSE data

\* if user_id in data: data[user_id]['messages'] = []
js_reset_user_memory(data, user_id) ==
    IF js_user_exists(data, user_id)
    THEN js_put_user(data, user_id, [js_user(data, user_id) EXCEPT !.messages = <<>>])
    ELSE data

js_delete_user_data(data, user_id) ==
    Pick(data, (1..Len(data)) \ RowsOf(data, user_id), 1)

(***************************************************************************)
(* MemoryManager: every method branches on self.storage_type.  S is the    *)
(* store of that backend.                                                  *)
(***************************************************************************)
StorageTypes == {"sqlite", "json"}

get_user_personality(storage_type, S, user_id) ==
    IF storage_type = "sqlite" THEN sq_get_user_personality(S, user_id)
    ELSE js_get_user_personality(S, user_id)

set_user_personality(storage_type, S, user_id, personality) ==
    IF storage_type = "sqlite" THEN sq_set_user_personality(S, user_id, personality)
    ELSE js_set_user_personality(S, user_id, personality)

update_username(storage_type, S, user_id, username) ==
    IF storage_type = "sqlite" THEN sq_update_username(S, user_id, username)
    ELSE js_update_username(S, user_id, username)

get_username(storage_type, S, user_id) ==
    IF storage_type = "sqlite" THEN sq_get_username(S, user_id)
    ELSE js_get_username(S, user_id)

get_all_usernames(storage_type, S) ==
    IF storage_type = "sqlite" THEN sq_get_all_usernames(S)
    ELSE js_get_all_usernames(S)

add_message(storage_type, S, user_id, role, content, username, now, max) ==
    IF storage_type = "sqlite"
    THEN sq_add_message(S, user_id, role, content, username, now, max)
    ELSE js_add_message(S, user_id, role, content, username, now, max)

get_conversation_history(storage_type, S, user_id, include_usernames) ==
    IF storage_type = "sqlite" THEN sq_get_conversation_history(S, user_id, include_usernames)
    ELSE js_get_conversation_history(S, user_id, include_usernames)

get_all_conversations(storage_type, S) ==
    IF storage_type = "sqlite" THEN sq_get_all_conversations(S)
    ELSE js_get_all_conversations(S)

get_user_metadata(storage_type, S, user_id, key) ==
    IF storage_type = "sqlite" THEN sq_get_user_metadata(S, user_id, key)
    ELSE js_get_user_metadata(S, user_id, key)

set_user_metadata(storage_type, S, user_id, key, value) ==
    IF storage_type = "sqlite" THEN sq_set_user_metadata(S, user_id, key, value)
    ELSE js_set_user_metadata(S, user_id, key, value)

initialize_user(storage_type, S, user_id, username) ==
    IF storage_type = "sqlite" THEN sq_initialize_user(S, user_id, username)
    ELSE js_initialize_user(S, user_id, username)

user_exists(storage_type, S, user_id) ==
    IF storage_type = "sqlite" THEN sq_user_exists(S, user_id)
    ELSE js_user_exists(S, user_id)

reset_user_memory(storage_type, S, user_id) ==
    IF storage_type = "sqlite" THEN sq_reset_user_memory(S, user_id)
    ELSE js_reset_user_memory(S, user_id)

delete_user_data(storage_type, S, user_id) ==
    IF storage_type = "sqlite" THEN sq_delete_user_data(S, user_id)
    ELSE js_delete_user_data(S, user_id)

\* The number of messages the store holds for user_id.
message_count(storage_type, S, user_id) ==
    IF storage_type = "sqlite" THEN Cardinality(RowsOf(S.messages, user_id))
    ELSE IF js_user_exists(S, user_id) THEN Len(js_user(S, user_id).messages) ELSE 0

\* The store of a backend in the current state.
Store(storage_type) == IF storage_type = "sqlite" THEN db ELSE js

(***************************************************************************)
(* LLMClient (src/models/llm.py): the message list generate_response       *)
(* composes and hands to the generation backend.  A dict argument is a     *)
(* sequence of <<key, value>>; None for a dict is the empty sequence (both *)
(* are false in `if global_context:` and `if user_mapping`).               *)
(***************************************************************************)
\* utils/config.py: the registry, here with two of its six entries.
PERSONALITIES ==
    ("default" :> [name |-> "Default Homie",
                   system_prompt |-> "Respond as a chill, reliable friend."])
    @@ ("sarcastic" :> [name |-> "Sarcastic Snark",
                        system_prompt |-> "Answer with sharp wit and a heavy dose of sarcasm."])

\* A lookup that falls back to the 'sarcastic' entry: the fallback to
\* 'default' must tell it from personality_data.
personality_data_fallback_sarcastic(personality) ==
    IF personality \in DOMAIN PERSONALITIES THEN PERSONALITIES[personality]
    ELSE PERSONALITIES["sarcastic"]

\* PERSONALITIES.get(personality, PERSONALITIES['default'])
personality_data(personality) ==
    IF personality \in DOMAIN PERSONALITIES THEN PERSONALITIES[personality]
    ELSE PERSONALITIES["default"]

NEW_USER_DIRECTIVE ==
    "This is a new user. Provide a brief welcome message before addressing their query."

\* history[-3:] in generate_response
SHARED_CONTEXT_MESSAGES == 3

enhance_system_prompt_with_usernames(system_prompt, personality_name, personality_display_name, current_username, user_mapping, is_new_user) ==
    <<"Personality: " \o personality_display_name, system_prompt>>
        \o (IF is_new_user THEN <<NEW_USER_DIRECTIVE>> ELSE <<>>)
        \o (IF Truthy(current_username)
            THEN <<"The current user you're talking to is named " \o current_username \o ".">>
            ELSE <<>>)
        \o (IF Len(user_mapping) > 0
            THEN <<"Other users in the conversation include:">>
                    \o [i \in 1..Len(user_mapping) |->
                            "- User " \o user_mapping[i][1] \o ": " \o user_mapping[i][2]]
                    \o <<"When responding, you can reference users by their names rather than their IDs.">>
            ELSE <<>>)

\* dict.get(key, default) on a sequence of <<key, value>>
DictGet(dict, key, default) ==
    IF \E i \in 1..Len(dict) : dict[i][1] = key
    THEN dict[CHOOSE i \in 1..Len(dict) : dict[i][1] = key][2]
    ELSE default

\* [msg for msg in messages if msg.get('role') != 'system']
WithoutSystem(messages) ==
    Pick(messages, {i \in 1..Len(messages) : messages[i].role # "system"}, 1)

\* The last three of the user and assistant messages, the roles filtered
\* before the slice is taken: shared-context construction must tell it from
\* RecentTurns.
RecentTurns_filter_first(history) ==
    PySliceLast(Pick(history, {i \in 1..Len(history) : history[i].role \in {"user", "assistant"}}, 1),
                SHARED_CONTEXT_MESSAGES)

\* for msg in history[-3:]: if msg.get('role') in ['user', 'assistant']
RecentTurns(history) ==
    LET recent == PySliceLast(history, SHARED_CONTEXT_MESSAGES)
    IN  Pick(recent, {i \in 1..Len(recent) : recent[i].role \in {"user", "assistant"}}, 1)

\* {'role': 'system', 'content': f"[Context from {username}]"}
ContextMarker(username) ==
    [role |-> "system", content |-> <<"[Context from " \o username \o "]">>]

RECURSIVE shared_messages_with_own(_, _, _)
\* A loop without `if uid == current_user_id: continue`: shared-context
\* exclusion must tell it from shared_messages.
shared_messages_with_own(global_context, current_user_id, user_mapping) ==
    IF global_context = <<>> THEN <<>>
    ELSE LET uid == Head(global_context)[1]
             history == Head(global_context)[2]
             username == DictGet(user_mapping, uid, "user " \o uid)
         IN  (IF history = <<>> THEN <<>>
              ELSE <<ContextMarker(username)>> \o RecentTurns(history))
                \o shared_messages_with_own(Tail(global_context), current_user_id, user_mapping)

\* The loop over global_context.items() that builds shared_messages.
RECURSIVE shared_messages(_, _, _)
shared_messages(global_context, current_user_id, user_mapping) ==
    IF global_context = <<>> THEN <<>>
    ELSE LET uid == Head(global_context)[1]
             history == Head(global_context)[2]
             username == DictGet(user_mapping, uid, "user " \o uid)
         IN  (IF uid = current_user_id \/ history = <<>> THEN <<>>
              ELSE <<ContextMarker(username)>> \o RecentTurns(history))
                \o shared_messages(Tail(global_context), current_user_id, user_mapping)

\* generate_response up to the call of the backend: the list `messages` that
\* _try_gemini and the LM Studio payload receive.
generate_response_messages(messages, personality, global_context, current_user_id, current_username, user_mapping, is_new_user) ==
    LET data == personality_data(personality)
        system_prompt == enhance_system_prompt_with_usernames(data.system_prompt,
                            personality, data.name, current_username, user_mapping,
                            is_new_user)
        own == <<[role |-> "system", content |-> system_prompt]>> \o WithoutSystem(messages)
    IN  IF Len(global_context) > 0
        THEN shared_messages(global_context, current_user_id, user_mapping) \o own
        ELSE own

(***************************************************************************)
(* The two generation backends.  What a backend does with a request is an  *)
(* input: Gemini is configured or not (GEMINI_API_KEY), a request raises   *)
(* an exception or returns a body, and the body holds a text or not.  A    *)
(* return value of generate_response is None or a str.                     *)
(***************************************************************************)
ReturnNone == [is_none |-> TRUE, text |-> <<>>]
ReturnStr(text) == [is_none |-> FALSE, text |-> text]

\* `if x:` for a return value: None and '' are false.
ReturnTruthy(x) == ~x.is_none /\ x.text # <<>>

NoException == "no exception"
Exceptions == {"RequestException", "JSONDecodeError", "KeyError"}

\* Gemini is not configured, or its request raises, or it returns a text.
GeminiBehaviours ==
    {[configured |-> FALSE, raises |-> NoException, text |-> <<>>]}
        \cup {[configured |-> TRUE, raises |-> e, text |-> <<>>] : e \in Exceptions}
        \cup {[configured |-> TRUE, raises |-> NoException, text |-> t] : t \in {<<>>, <<"g">>}}

\* The LM Studio request raises, or returns a body without choices, or a
\* body whose first choice holds a text.
LmStudioBehaviours ==
    {[raises |-> e, has_choices |-> FALSE, text |-> <<>>] : e \in Exceptions}
        \cup {[raises |-> NoException, has_choices |-> FALSE, text |-> <<>>]}
        \cup {[raises |-> NoException, has_choices |-> TRUE, text |-> t] : t \in {<<>>, <<"l">>}}

\* _try_gemini: None when GEMINI_API_KEY is not set (no request is made);
\* otherwise one request, and `except Exception` turns every failure into None.
_try_gemini(messages, gemini) ==
    IF ~gemini.configured THEN [ret |-> ReturnNone, requests |-> <<>>]
    ELSE [ret |-> IF gemini.raises # NoException THEN ReturnNone
                  ELSE ReturnStr(gemini.text),
          requests |-> <<[to |-> "gemini", messages |-> messages]>>]

\* except requests.exceptions.RequestException / except json.JSONDecodeError /
\* except Exception: every exception a request can raise meets a clause.
Caught(exception) ==
    \/ exception \in {"RequestException", "JSONDecodeError"}
    \/ exception \in Exceptions

\* The LM Studio request of generate_response: the content of the first
\* choice, None for a body without choices; the except clauses name
\* RequestException, JSONDecodeError and Exception, and each returns None.
lm_studio(messages, backend) ==
    [ret |-> IF backend.raises # NoException THEN ReturnNone
             ELSE IF backend.has_choices THEN ReturnStr(backend.text)
             ELSE ReturnNone,
     raised |-> IF Caught(backend.raises) THEN NoException ELSE backend.raises,
     requests |-> <<[to |-> "lmstudio", messages |-> messages]>>]

\* A generate_response that asks LM Studio first and Gemini only when LM
\* Studio gave nothing: the fallback order must tell it from
\* generate_response.
generate_response_lm_studio_first(messages, gemini, backend) ==
    LET lm_result == lm_studio(messages, backend)
        gemini_result == _try_gemini(messages, gemini)
    IN  IF ReturnTruthy(lm_result.ret)
        THEN [ret |-> lm_result.ret, raised |-> NoException,
              requests |-> lm_result.requests]
        ELSE [ret |-> gemini_result.ret, raised |-> NoException,
              requests |-> lm_result.requests \o gemini_result.requests]

\* generate_response from the composed list `messages` on: Gemini first, LM
\* Studio when Gemini returned nothing.
generate_response(messages, gemini, backend) ==
    LET gemini_result == _try_gemini(messages, gemini)
        lm_result == lm_studio(messages, backend)
    IN  IF ReturnTruthy(gemini_result.ret)
        THEN [ret |-> gemini_result.ret, raised |-> NoException,
              requests |-> gemini_result.requests]
        ELSE [ret |-> lm_result.ret, raised |-> lm_result.raised,
              requests |-> gemini_result.requests \o lm_result.requests]

(***************************************************************************)
(* The command handlers (src/commands).  A handler runs on the event loop  *)
(* of discord.py and gives way to other handlers only at an await: every   *)
(* call of MemoryManager and of LLMClient is synchronous.                  *)
(***************************************************************************)
\* message.author.display_name of each user.
DisplayName == [u \in Speakers |-> IF u = "u1" THEN "al" ELSE IF u = "u2" THEN "bo" ELSE "cy"]

\* f"[NEW USER {username}]: "
NewUserTag(username) == "[NEW USER " \o username \o "]: "

\* What the generation backend returns: a text, or nothing (None or '', both
\* false in `if llm_response:`), written <<>>.
Replies == {<<"ok">>}

\* AskCommand.handle from its start to `async with message.channel.typing()`,
\* for a non-empty args.
ask_begin(st, S, user_id, username, user_message, now, max) ==
    LET is_new_user == ~user_exists(st, S, user_id)
        formatted_message == IF is_new_user THEN <<NewUserTag(username)>> \o user_message
                             ELSE user_message
        S1 == IF is_new_user THEN initialize_user(st, S, user_id, username) ELSE S
        S2 == add_message(st, S1, user_id, "user", formatted_message, username, now, max)
        personality == get_user_personality(st, S2, user_id)
    IN  [st |-> personality.st,
         is_new_user |-> is_new_user,
         formatted_message |-> formatted_message,
         personality |-> personality.ret,
         conversation_history |-> get_conversation_history(st, personality.st, user_id, TRUE)]

\* user_mapping = get_all_usernames(); if user_id not in user_mapping: add it
ask_user_mapping(st, S, user_id, username) ==
    LET user_mapping == get_all_usernames(st, S)
    IN  IF \E i \in 1..Len(user_mapping) : user_mapping[i][1] = user_id
        THEN user_mapping
        ELSE Append(user_mapping, <<user_id, username>>)

\* The message list the ask begun as `ask` (a result of ask_begin) hands to
\* the generation backend when it resumes on store S.
ask_messages(st, S, user_id, username, ask) ==
    generate_response_messages(ask.conversation_history, ask.personality,
        get_all_conversations(st, S), user_id, username,
        ask_user_mapping(st, S, user_id, username), ask.is_new_user)

\* A handler that stores the response under the role of the synthesized
\* message: the roles of the persisted messages must tell it from
\* ask_respond.
ask_respond_as_system(st, S, user_id, llm_response, now, max) ==
    IF llm_response # <<>>
    THEN add_message(st, S, user_id, "system", llm_response, None, now, max)
    ELSE S

\* A handler that never stores the response: the new-user scenario must tell
\* it from ask_respond.
ask_respond_not_stored(st, S, user_id, llm_response, now, max) == S

\* AskCommand.handle from the typing() block on: the store after the backend
\* returned llm_response.
ask_respond(st, S, user_id, llm_response, now, max) ==
    IF llm_response # <<>>
    THEN add_message(st, S, user_id, "assistant", llm_response, None, now, max)
    ELSE S

\* The text AskCommand.handle sends to the channel once generate_response
\* returned llm_response.
APOLOGY == <<"Sorry, I couldn't generate a response. Please try again later.">>

ask_send_response(llm_response) == IF llm_response # <<>> THEN llm_response ELSE APOLOGY

\* SlapCommand.handle: the store after the slap count was raised and the
\* personality looked up.
slap(st, S, user_id) ==
    LET stored == get_user_metadata(st, S, user_id, "slap_count")
        slap_count == (IF PyTruthy(stored.ret) THEN IntOf(stored.ret) ELSE 0) + 1
        S1 == set_user_metadata(st, stored.st, user_id, "slap_count", PyInt(slap_count))
    IN  get_user_personality(st, S1, user_id).st

\* A _handle_set without the registry check: the validation of the
\* personality id must tell it from personality_set.
personality_set_unchecked(st, S, user_id, personality_name) ==
    set_user_personality(st, S, user_id, personality_name)

\* PersonalityCommand._handle_set
personality_set(st, S, user_id, personality_name) ==
    IF personality_name \notin DOMAIN PERSONALITIES THEN S
    ELSE set_user_personality(st, S, user_id, personality_name)

\* PersonalityCommand._handle_current: the store after the lookup and the
\* embed it sends (the personality's name, its description, the stored id).
personality_current(st, S, user_id) ==
    LET personality_name == get_user_personality(st, S, user_id)
        data == personality_data(personality_name.ret)
    IN  [st |-> personality_name.st,
         embed |-> [name |-> data.name, description |-> data.system_prompt,
                    id |-> personality_name.ret]]

\* MemoryCommand._handle_view: the two histories it reads and formats; the
\* store is not written.
memory_view(st, S, user_id) ==
    [history_for_file |-> get_conversation_history(st, S, user_id, FALSE),
     history_for_embed |-> get_conversation_history(st, S, user_id, TRUE)]

\* MemoryCommand.handle with the subcommand 'delete': it calls
\* self._handle_delete, which no class defines; the AttributeError is raised
\* before any call of MemoryManager, so the store is the one it found.
memory_delete(st, S, user_id) == S

(***************************************************************************)
(* The operations of MemoryManager as steps on both stores.                *)
(***************************************************************************)
Init ==
    /\ db = EmptyDb
    /\ js = EmptyJs
    /\ clock = 0
    /\ MAX_CONTEXT_LENGTH \in 1..CtxLen
    /\ appended = [st \in StorageTypes |-> [u \in Speakers |-> <<>>]]
    /\ pending = <<>>
    /\ nops = 0

\* appended once add_message has stored `content` for user_id on the sqlite
\* backend and `content_js` on the json backend.
Appended(user_id, role, content, content_js) ==
    [appended EXCEPT
        !["sqlite"][user_id] = Append(@, [role |-> role, content |-> content]),
        !["json"][user_id] = Append(@, [role |-> role, content |-> content_js])]

\* appended once the history of user_id was cleared on both backends.
Cleared(user_id) ==
    [appended EXCEPT !["sqlite"][user_id] = <<>>, !["json"][user_id] = <<>>]

\* Time passes between two calls.
Tick ==
    /\ clock < MaxClock
    /\ clock' = clock + 1
    /\ UNCHANGED <<db, js, MAX_CONTEXT_LENGTH, appended, pending, nops>>

\* One more operation of the bounded run.
Step ==
    /\ nops < MaxOps
    /\ nops' = nops + 1
    /\ UNCHANGED <<clock, MAX_CONTEXT_LENGTH>>

AddMessage(user_id, role, content, username) ==
    /\ Step
    /\ db' = add_message("sqlite", db, user_id, role, content, username, clock,
                         MAX_CONTEXT_LENGTH)
    /\ js' = add_message("json", js, user_id, role, content, username, clock,
                         MAX_CONTEXT_LENGTH)
    /\ appended' = Appended(user_id, role, content, content)
    /\ UNCHANGED pending

GetUserPersonality(user_id) ==
    /\ Step
    /\ db' = get_user_personality("sqlite", db, user_id).st
    /\ js' = get_user_personality("json", js, user_id).st
    /\ UNCHANGED <<appended, pending>>

SetUserPersonality(user_id, personality) ==
    /\ Step
    /\ db' = set_user_personality("sqlite", db, user_id, personality)
    /\ js' = set_user_personality("json", js, user_id, personality)
    /\ UNCHANGED <<appended, pending>>

UpdateUsername(user_id, username) ==
    /\ Step
    /\ db' = update_username("sqlite", db, user_id, username)
    /\ js' = update_username("json", js, user_id, username)
    /\ UNCHANGED <<appended, pending>>

GetUserMetadata(user_id, key) ==
    /\ Step
    /\ db' = get_user_metadata("sqlite", db, user_id, key).st
    /\ js' = get_user_metadata("json", js, user_id, key).st
    /\ UNCHANGED <<appended, pending>>

SetUserMetadata(user_id, key, value) ==
    /\ Step
    /\ db' = set_user_metadata("sqlite", db, user_id, key, value)
    /\ js' = set_user_metadata("json", js, user_id, key, value)
    /\ UNCHANGED <<appended, pending>>

InitializeUser(user_id, username) ==
    /\ Step
    /\ db' = initialize_user("sqlite", db, user_id, username)
    /\ js' = initialize_user("json", js, user_id, username)
    /\ appended' = [appended EXCEPT !["json"][user_id] = <<>>]
    /\ UNCHANGED pending

ResetUserMemory(user_id) ==
    /\ Step
    /\ db' = reset_user_memory("sqlite", db, user_id)
    /\ js' = reset_user_memory("json", js, user_id)
    /\ appended' = Cleared(user_id)
    /\ UNCHANGED pending

DeleteUserData(user_id) ==
    /\ Step
    /\ db' = delete_user_data("sqlite", db, user_id)
    /\ js' = delete_user_data("json", js, user_id)
    /\ appended' = Cleared(user_id)
    /\ UNCHANGED pending

\* The values given to set_user_metadata.
MetaValues ==
    {PyInt(0), PyInt(3), PyStr("3"), PyStr("abc"), PyStr("null"),
     <<"bool", "false">>, PyNone, <<"list", "[1]">>, <<"dict", "{\"a\": 1}">>}

Next ==
    \/ Tick
    \/ \E u \in Users, r \in Roles, c \in Texts, n \in Names \cup {None} :
            AddMessage(u, r, c, n)
    \/ \E u \in Users : GetUserPersonality(u)
    \/ \E u \in Users, p \in PersonalityIds : SetUserPersonality(u, p)
    \/ \E u \in Users, n \in Names : UpdateUsername(u, n)
    \/ \E u \in Users, k \in Keys : GetUserMetadata(u, k)
    \/ \E u \in Users, k \in Keys, v \in MetaValues : SetUserMetadata(u, k, v)
    \/ \E u \in Users, n \in Names : InitializeUser(u, n)
    \/ \E u \in Users : ResetUserMemory(u)
    \/ \E u \in Users : DeleteUserData(u)

Spec == Init /\ [][Next]_vars
(***************************************************************************)
(* The bot: command handlers in flight on the event loop.                  *)
(***************************************************************************)
\* One more handler segment of the bounded run.
BotStep ==
    /\ nops < MaxCmds
    /\ nops' = nops + 1
    /\ UNCHANGED <<clock, MAX_CONTEXT_LENGTH>>

\* !ask <text>: the handler runs up to typing() and is suspended there.
AskBegin(user_id, user_message) ==
    LET sq == ask_begin("sqlite", db, user_id, DisplayName[user_id], user_message,
                        clock, MAX_CONTEXT_LENGTH)
        jsn == ask_begin("json", js, user_id, DisplayName[user_id], user_message,
                         clock, MAX_CONTEXT_LENGTH)
    IN  /\ BotStep
        /\ Len(pending) < MaxInFlight
        /\ db' = sq.st
        /\ js' = jsn.st
        /\ appended' = Appended(user_id, "user", sq.formatted_message, jsn.formatted_message)
        /\ pending' = Append(pending,
                [user_id |-> user_id, username |-> DisplayName[user_id],
                 sqlite |-> [is_new_user |-> sq.is_new_user,
                             formatted_message |-> sq.formatted_message,
                             personality |-> sq.personality,
                             conversation_history |-> sq.conversation_history],
                 json |-> [is_new_user |-> jsn.is_new_user,
                           formatted_message |-> jsn.formatted_message,
                           personality |-> jsn.personality,
                           conversation_history |-> jsn.conversation_history]])

\* The suspended ask i resumes: it composes the prompt, the backend returns
\* llm_response, and a non-empty response is stored.
AskRespond(i, llm_response) ==
    /\ BotStep
    /\ i \in 1..Len(pending)
    /\ db' = ask_respond("sqlite", db, pending[i].user_id, llm_response, clock,
                         MAX_CONTEXT_LENGTH)
    /\ js' = ask_respond("json", js, pending[i].user_id, llm_response, clock,
                         MAX_CONTEXT_LENGTH)
    /\ appended' = IF llm_response # <<>>
                   THEN Appended(pending[i].user_id, "assistant", llm_response, llm_response)
                   ELSE appended
    /\ pending' = Pick(pending, (1..Len(pending)) \ {i}, 1)

\* !reset
Reset(user_id) ==
    /\ BotStep
    /\ db' = reset_user_memory("sqlite", db, user_id)
    /\ js' = reset_user_memory("json", js, user_id)
    /\ appended' = Cleared(user_id)
    /\ UNCHANGED pending

\* !personality set <id>
PersonalitySet(user_id, personality_name) ==
    /\ BotStep
    /\ db' = personality_set("sqlite", db, user_id, personality_name)
    /\ js' = personality_set("json", js, user_id, personality_name)
    /\ UNCHANGED <<appended, pending>>

\* !slap
Slap(user_id) ==
    /\ BotStep
    /\ db' = slap("sqlite", db, user_id)
    /\ js' = slap("json", js, user_id)
    /\ UNCHANGED <<appended, pending>>

\* !personality current
PersonalityCurrent(user_id) ==
    /\ BotStep
    /\ db' = personality_current("sqlite", db, user_id).st
    /\ js' = personality_current("json", js, user_id).st
    /\ UNCHANGED <<appended, pending>>

\* !memory view: the histories are read and shown, nothing is written.
MemoryView(user_id) ==
    /\ BotStep
    /\ UNCHANGED <<db, js, appended, pending>>

\* !memory delete: handle calls self._handle_delete, which MemoryCommand does
\* not define; the AttributeError is raised before any call of
\* MemoryManager and caught in on_message.
MemoryDelete(user_id) ==
    /\ BotStep
    /\ db' = memory_delete("sqlite", db, user_id)
    /\ js' = memory_delete("json", js, user_id)
    /\ UNCHANGED <<appended, pending>>

NextBot ==
    \/ Tick
    \/ \E u \in Users, t \in Texts : AskBegin(u, t)
    \/ \E i \in 1..MaxInFlight, r \in Replies \cup {<<>>} : AskRespond(i, r)
    \/ \E u \in Users : Reset(u)
    \/ \E u \in Users, p \in PersonalityIds : PersonalitySet(u, p)
    \/ \E u \in Users : Slap(u)
    \/ \E u \in Users : PersonalityCurrent(u)
    \/ \E u \in Users : MemoryView(u)
    \/ \E u \in Users : MemoryDelete(u)

SpecBot == Init /\ [][NextBot]_vars

(***************************************************************************)
(* Long conversations: three users talk under a retention bound above the  *)
(* three messages that the shared context takes of a history.  The clock   *)
(* stands still: timestamps never decrease, so the order of the stored     *)
(* messages is their order of insertion whatever the clock does.           *)
(***************************************************************************)
InitLong ==
    /\ db = EmptyDb
    /\ js = EmptyJs
    /\ clock = 0
    /\ MAX_CONTEXT_LENGTH = LongCtx
    /\ appended = [st \in StorageTypes |-> [u \in Speakers |-> <<>>]]
    /\ pending = <<>>
    /\ nops = 0

\* add_message of the nops-th message, whose content is its number; a user
\* message carries the display name of its author.
Converse(user_id, role) ==
    LET content == <<"m" \o ToString(nops)>>
        username == IF role = "user" THEN DisplayName[user_id] ELSE None
    IN  /\ nops < MaxLong
        /\ nops' = nops + 1
        /\ db' = add_message("sqlite", db, user_id, role, content, username, clock,
                             MAX_CONTEXT_LENGTH)
        /\ js' = add_message("json", js, user_id, role, content, username, clock,
                             MAX_CONTEXT_LENGTH)
        /\ appended' = Appended(user_id, role, content, content)
        /\ UNCHANGED <<clock, MAX_CONTEXT_LENGTH, pending>>

NextLong == \E u \in Speakers, r \in Roles : Converse(u, r)

SpecLong == InitLong /\ [][NextLong]_vars

(***************************************************************************)
(* memory.json on disk, for a deployment with storage_type 'json'.  The    *)
(* file holds what _save_json_data wrote last, or, once something else     *)
(* than the program wrote it, contents json.load cannot read: text that is *)
(* not JSON (a document cut short, an empty file), or bytes that are not   *)
(* text in the encoding open() reads with.                                 *)
(***************************************************************************)
NotJsonText == <<[contents |-> "not JSON text"]>>
UndecodableBytes == <<[contents |-> "undecodable bytes"]>>
CorruptFiles == {NotJsonText, UndecodableBytes}

\* memory.json is not there: _init_json creates it at construction only.
NoFile == <<[contents |-> "no such file"]>>

\* try: json.load(f)  except (json.JSONDecodeError, FileNotFoundError): {}
\* json.load reads the file as text before it parses it: bytes that do not
\* decode raise UnicodeDecodeError, which the except clause does not name.
_get_json_data(file) ==
    IF file = UndecodableBytes THEN [raised |-> "UnicodeDecodeError", data |-> EmptyJs]
    ELSE IF file \in {NotJsonText, NoFile} THEN [raised |-> None, data |-> EmptyJs]
    ELSE [raised |-> None, data |-> file]

\* The file after a method that calls _save_json_data(data) when `saves`.
_save_json_data(file, data, saves) == IF saves THEN data ELSE file

\* Something other than the program overwrites memory.json.
CorruptFile(contents) ==
    /\ Step
    /\ js' = contents
    /\ appended' = [appended EXCEPT !["json"] = [u \in Speakers |-> <<>>]]
    /\ UNCHANGED <<db, pending>>

\* Something other than the program removes memory.json.
RemoveFile ==
    /\ Step
    /\ js' = NoFile
    /\ appended' = [appended EXCEPT !["json"] = [u \in Speakers |-> <<>>]]
    /\ UNCHANGED <<db, pending>>

\* add_message(user_id, role, content) on the file: it always saves.
FileAddMessage(user_id, role, content) ==
    LET loaded == _get_json_data(js)
    IN  /\ Step
        /\ IF loaded.raised # None
           THEN UNCHANGED <<js, appended>>
           ELSE /\ js' = _save_json_data(js,
                            js_add_message(loaded.data, user_id, role, content, None,
                                           clock, MAX_CONTEXT_LENGTH), TRUE)
                /\ appended' = [appended EXCEPT !["json"][user_id] =
                                    Append(@, [role |-> role, content |-> content])]
        /\ UNCHANGED <<db, pending>>

\* get_user_personality(user_id) on the file: it saves the record it creates.
FileGetUserPersonality(user_id) ==
    LET loaded == _get_json_data(js)
    IN  /\ Step
        /\ IF loaded.raised # None
           THEN UNCHANGED js
           ELSE js' = _save_json_data(js, js_get_user_personality(loaded.data, user_id).st,
                                      ~js_user_exists(loaded.data, user_id))
        /\ UNCHANGED <<db, appended, pending>>

\* reset_user_memory(user_id) on the file: it saves when the user is there.
FileResetUserMemory(user_id) ==
    LET loaded == _get_json_data(js)
    IN  /\ Step
        /\ IF loaded.raised # None
           THEN UNCHANGED <<js, appended>>
           ELSE /\ js' = _save_json_data(js, js_reset_user_memory(loaded.data, user_id),
                                         js_user_exists(loaded.data, user_id))
                /\ appended' = [appended EXCEPT !["json"][user_id] = <<>>]
        /\ UNCHANGED <<db, pending>>

NextFile ==
    \/ Tick
    \/ \E c \in CorruptFiles : CorruptFile(c)
    \/ RemoveFile
    \/ \E u \in Users, r \in Roles, t \in Texts : FileAddMessage(u, r, t)
    \/ \E u \in Users : FileGetUserPersonality(u)
    \/ \E u \in Users : FileResetUserMemory(u)

SpecFile == Init /\ [][NextFile]_vars

(***************************************************************************)
(* Every configurable bound: MAX_CONTEXT_LENGTH is int(os.getenv(...)), and *)
(* nothing checks that it is positive, so 0 is a configuration also.       *)
(***************************************************************************)
InitAnyBound ==
    /\ db = EmptyDb
    /\ js = EmptyJs
    /\ clock = 0
    /\ MAX_CONTEXT_LENGTH \in 0..CtxLen
    /\ appended = [st \in StorageTypes |-> [u \in Speakers |-> <<>>]]
    /\ pending = <<>>
    /\ nops = 0

SpecAnyBound == InitAnyBound /\ [][Next]_vars

(***************************************************************************)
(* Properties.                                                             *)
(***************************************************************************)
\* The last n elements of s, all of s when it has fewer.
Window(s, n) == IF Len(s) <= n THEN s ELSE SubSeq(s, Len(s) - n + 1, Len(s))

\* A dict given as a sequence of <<key, value>>, as the set of its items:
\* two Python dicts are equal when they hold the same items.
Items(dict) == {dict[i] : i \in 1..Len(dict)}

\* C1 (retention bound): on either backend, once more than
\* MAX_CONTEXT_LENGTH messages were appended for a user, whatever the
\* timestamps, get_conversation_history returns exactly the last
\* MAX_CONTEXT_LENGTH appended, in append order.
C1_RetentionBound ==
    \A u \in Users, st \in StorageTypes :
        Len(appended[st][u]) > MAX_CONTEXT_LENGTH =>
            get_conversation_history(st, Store(st), u, FALSE)
                = Window(appended[st][u], MAX_CONTEXT_LENGTH)

\* C2 (retention invariant): in every reachable state each user's persisted
\* message count is at most MAX_CONTEXT_LENGTH on both backends, and the
\* state add_message commits between its insert and its trim holds at most
\* MAX_CONTEXT_LENGTH + 1 messages of the user.
C2_RetentionInvariant ==
    \A u \in Users :
        /\ \A st \in StorageTypes :
                message_count(st, Store(st), u) <= MAX_CONTEXT_LENGTH
        /\ \A r \in Roles, c \in Texts, n \in Names \cup {None} :
                message_count("sqlite", sq_insert_message(db, u, r, c, n, clock), u)
                    <= MAX_CONTEXT_LENGTH + 1

\* A user's history overflowed and was trimmed to the bound on both backends.
C2_Witness ==
    \E u \in Users :
        \A st \in StorageTypes :
            /\ Len(appended[st][u]) > MAX_CONTEXT_LENGTH
            /\ message_count(st, Store(st), u) = MAX_CONTEXT_LENGTH

\* What the read operations of MemoryManager return on a backend, dicts as
\* their sets of items.
Reads(st) ==
    [history |-> [u \in Users |-> [b \in BOOLEAN |->
                    get_conversation_history(st, Store(st), u, b)]],
     conversations |-> Items(get_all_conversations(st, Store(st))),
     personality |-> [u \in Users |-> get_user_personality(st, Store(st), u).ret],
     metadata |-> [u \in Users |-> [k \in Keys |->
                    get_user_metadata(st, Store(st), u, k).ret]],
     username |-> [u \in Users |-> get_username(st, Store(st), u)],
     usernames |-> Items(get_all_usernames(st, Store(st))),
     exists |-> [u \in Users |-> user_exists(st, Store(st), u)]]

\* C4 (backend interchangeability): after the same sequence of operations
\* every read operation returns the same result on the sqlite and on the
\* json backend.
C4_BackendsAgree == Reads("sqlite") = Reads("json")

\* C6 (metadata round trip): for every user, key and JSON-serializable value
\* v, get_user_metadata after set_user_metadata returns a value equal to v
\* and of the same type, on both backends.
C6_MetadataRoundTrip ==
    \A st \in StorageTypes, u \in Users, k \in Keys, v \in MetaValues :
        get_user_metadata(st, set_user_metadata(st, Store(st), u, k, v), u, k).ret = v

\* Key k was never set for user u in store S of backend st.
NeverSet(st, S, u, k) ==
    IF st = "sqlite" THEN MetaRows(S.user_metadata, u, k) = {}
    ELSE ~js_user_exists(S, u) \/ KeyRows(js_user(S, u).metadata, k) = {}

\* C7 (absent marker): what get_user_metadata returns for a key that was
\* never set differs from what it returns for a key set to 0, to false or to
\* null.
C7_AbsentMarker ==
    \A st \in StorageTypes, u \in Users, k \in Keys :
        NeverSet(st, Store(st), u, k) =>
            \A v \in {PyInt(0), <<"bool", "false">>, PyNone} :
                get_user_metadata(st, Store(st), u, k).ret
                    # get_user_metadata(st, set_user_metadata(st, Store(st), u, k, v), u, k).ret

\* The number of user records the store holds for user_id.
record_count(st, S, user_id) ==
    IF st = "sqlite" THEN Cardinality(RowsOf(S.users, user_id))
    ELSE Cardinality(RowsOf(S, user_id))

\* C8 (idempotent lazy creation): get_user_personality on a never-seen user
\* returns 'default' and creates the one record of the user; a second call
\* returns 'default' again and leaves the store exactly as the first left it,
\* on both backends.
C8_LazyCreation ==
    \A st \in StorageTypes, u \in Users :
        ~user_exists(st, Store(st), u) =>
            LET first == get_user_personality(st, Store(st), u)
                second == get_user_personality(st, first.st, u)
            IN  /\ first.ret = "default"
                /\ user_exists(st, first.st, u)
                /\ record_count(st, first.st, u) = 1
                /\ second.ret = "default"
                /\ second.st = first.st

\* One user was created by a personality lookup (placeholder name, default
\* personality, nothing else) while the other user has never been seen.
C8_Witness ==
    \E u \in Users, w \in Users :
        /\ nops = 1
        /\ js = <<NewRecord(u, Placeholder(u), "default", <<>>)>>
        /\ db.users = <<[user_id |-> u, username |-> Placeholder(u),
                         personality |-> "default"]>>
        /\ ~user_exists("sqlite", db, w) /\ ~user_exists("json", js, w)

\* C9 (creation lifecycle): get_user_metadata, reset_user_memory and
\* delete_user_data never create a user, and on an absent user the read
\* operations return empty or default values: an empty history, the
\* placeholder name, no metadata, user_exists false.
C9_ReadsNeverCreate ==
    \A st \in StorageTypes, u \in Users :
        ~user_exists(st, Store(st), u) =>
            /\ \A k \in Keys :
                /\ ~user_exists(st, get_user_metadata(st, Store(st), u, k).st, u)
                /\ get_user_metadata(st, Store(st), u, k).ret = PyNone
            /\ ~user_exists(st, reset_user_memory(st, Store(st), u), u)
            /\ ~user_exists(st, delete_user_data(st, Store(st), u), u)
            /\ get_conversation_history(st, Store(st), u, TRUE) = <<>>
            /\ get_username(st, Store(st), u) = Placeholder(u)
            /\ \A i \in 1..Len(get_all_conversations(st, Store(st))) :
                    get_all_conversations(st, Store(st))[i][1] # u
            /\ \A i \in 1..Len(get_all_usernames(st, Store(st))) :
                    get_all_usernames(st, Store(st))[i][1] # u

\* The system-role messages of a composed list, by position.
SystemAt(messages) == {i \in 1..Len(messages) : messages[i].role = "system"}

\* C3 (single system message): for the history of any user (system-role
\* entries included), any personality, the conversations of all users as
\* global context and their names as user mapping, the list generate_response
\* hands to the backend holds exactly one system-role message, the first of
\* the list (index 0 of the Python list).
C3_SingleSystemMessage ==
    \A st \in StorageTypes, u \in Users, p \in PersonalityIds, is_new_user \in BOOLEAN :
        SystemAt(generate_response_messages(
                    get_conversation_history(st, Store(st), u, TRUE), p,
                    get_all_conversations(st, Store(st)), u, DisplayName[u],
                    ask_user_mapping(st, Store(st), u, DisplayName[u]),
                    is_new_user)) = {1}

\* C5 (concurrent requests): with ask, reset, personality set and slap
\* handlers in flight at once, for the same or for different users, the
\* history of every user is, on both backends, the last MAX_CONTEXT_LENGTH
\* messages appended since it was last cleared: none is lost but by
\* eviction, and none is kept beyond the bound.
C5_ConcurrentRequests ==
    \A st \in StorageTypes, u \in Users :
        get_conversation_history(st, Store(st), u, FALSE)
            = Window(appended[st][u], MAX_CONTEXT_LENGTH)

\* The synthesized system message of a composed list carries the new-user
\* directive.
HasNewUserDirective(messages) ==
    \E i \in SystemAt(messages) : NEW_USER_DIRECTIVE \in Range(messages[i].content)

Min(a, b) == IF a <= b THEN a ELSE b

\* C10 as stated (new-user scenario): when a user with no record sends a
\* message through the ask flow, the composed system text contains the
\* new-user directive, and after the call user_exists is true and the
\* history has length 1.
C10_NewUserScenario_AsStated ==
    \A st \in StorageTypes, u \in Users, t \in Texts, r \in Replies \cup {<<>>},
       later \in clock..MaxClock :
        ~user_exists(st, Store(st), u) =>
            LET ask == ask_begin(st, Store(st), u, DisplayName[u], t, clock,
                                 MAX_CONTEXT_LENGTH)
                after == ask_respond(st, ask.st, u, r, later, MAX_CONTEXT_LENGTH)
            IN  /\ HasNewUserDirective(ask_messages(st, ask.st, u, DisplayName[u], ask))
                /\ user_exists(st, after, u)
                /\ Len(get_conversation_history(st, after, u, TRUE)) = 1

\* C10 (new-user scenario, amended): when a user with no record sends a
\* message through the ask flow, the composed system text contains the
\* new-user directive and the prompt is composed from a history of length 1;
\* after the call user_exists is true, and the history has length 1 when the
\* backend returned no response and min(2, MAX_CONTEXT_LENGTH) when it
\* returned one, which the handler stores as an assistant message.
C10_NewUserScenario ==
    \A st \in StorageTypes, u \in Users, t \in Texts, r \in Replies \cup {<<>>},
       later \in clock..MaxClock :
        ~user_exists(st, Store(st), u) =>
            LET ask == ask_begin(st, Store(st), u, DisplayName[u], t, clock,
                                 MAX_CONTEXT_LENGTH)
                after == ask_respond(st, ask.st, u, r, later, MAX_CONTEXT_LENGTH)
            IN  /\ HasNewUserDirective(ask_messages(st, ask.st, u, DisplayName[u], ask))
                /\ Len(ask.conversation_history) = 1
                /\ user_exists(st, after, u)
                /\ Len(get_conversation_history(st, after, u, TRUE))
                    = IF r = <<>> THEN 1 ELSE Min(2, MAX_CONTEXT_LENGTH)

\* A new user's ask has completed with a response: on both backends the
\* history is the tagged first message and the stored response, and no ask
\* is left in flight.
C10_Witness ==
    \E u \in Users, t \in Texts, r \in Replies :
        /\ pending = <<>>
        /\ \A st \in StorageTypes :
            /\ user_exists(st, Store(st), u)
            /\ get_conversation_history(st, Store(st), u, FALSE)
                = <<[role |-> "user", content |-> <<NewUserTag(DisplayName[u])>> \o t],
                    [role |-> "assistant", content |-> r]>>

\* A dict without the entry of key.
DictWithout(dict, key) == Pick(dict, {i \in 1..Len(dict) : dict[i][1] # key}, 1)

\* The entries of a global context that belong to other users than
\* current_user_id and hold at least one message.
Contributors(global_context, current_user_id) ==
    Pick(global_context,
         {i \in 1..Len(global_context) :
            global_context[i][1] # current_user_id /\ global_context[i][2] # <<>>}, 1)

\* The marker a contributor's block starts with.
MarkerOf(entry, user_mapping) ==
    ContextMarker(DictGet(user_mapping, entry[1], "user " \o entry[1]))

\* The list composed for user u of backend st in the current state under
\* global context gc and user mapping um, as the ask handler composes it.
ComposedFor(st, u, p, gc, um) ==
    generate_response_messages(get_conversation_history(st, Store(st), u, TRUE), p,
                               gc, u, DisplayName[u], um, FALSE)

\* C11 (shared-context exclusion): for every current user u, the list
\* composed for u is the list composed from the global context without u's
\* own entry, and it holds as many system-role messages as there are other
\* users with a history, plus the synthesized one: no marker block is built
\* from u's own history.
C11_SharedContextExclusion ==
    \A st \in StorageTypes, u \in Users :
        LET gc == get_all_conversations(st, Store(st))
            um == ask_user_mapping(st, Store(st), u, DisplayName[u])
            own == WithoutSystem(get_conversation_history(st, Store(st), u, TRUE))
            out == ComposedFor(st, u, "default", gc, um)
        IN  /\ out = ComposedFor(st, u, "default", DictWithout(gc, u), um)
            /\ Cardinality(SystemAt(out)) = Len(Contributors(gc, u)) + 1
            /\ \A i \in SystemAt(out) \ {Len(out) - Len(own)} :
                    \E j \in 1..Len(gc) : gc[j][1] # u /\ out[i] = MarkerOf(gc[j], um)

\* Both users have a history on both backends: the global context of either
\* holds its own entry and the entry of the other.
C11_Witness ==
    \A st \in StorageTypes, u \in Users :
        get_conversation_history(st, Store(st), u, FALSE) # <<>>

\* The most recent three messages of a history that are user or assistant
\* messages, in their stored order.
Turns(history) ==
    LET recent == Window(history, 3)
    IN  Pick(recent, {i \in 1..Len(recent) : recent[i].role \in {"user", "assistant"}}, 1)

\* Where the block of the k-th contributor starts in a composed list.
RECURSIVE BlockStart(_, _)
BlockStart(contributors, k) ==
    IF k = 1 THEN 1
    ELSE BlockStart(contributors, k - 1) + 1 + Len(Turns(contributors[k - 1][2]))

\* C12 (shared-context construction): the composed list is, for every other
\* user with a non-empty history in iteration order, one system-role marker
\* naming that user (the mapped name, or 'user <id>' without a mapping)
\* followed by the user's most recent three messages restricted to the roles
\* user and assistant in stored order; then the synthesized system message
\* and the target user's own messages.  A user without history contributes
\* nothing.
C12_SharedContextConstruction ==
    \A st \in StorageTypes, u \in Speakers :
        \A um \in {ask_user_mapping(st, Store(st), u, DisplayName[u]), <<>>} :
            LET gc == get_all_conversations(st, Store(st))
                cs == Contributors(gc, u)
                own == WithoutSystem(get_conversation_history(st, Store(st), u, TRUE))
                out == ComposedFor(st, u, "default", gc, um)
                end == BlockStart(cs, Len(cs) + 1)
            IN  /\ Len(out) = end + Len(own)
                /\ \A k \in 1..Len(cs) :
                        /\ out[BlockStart(cs, k)] = MarkerOf(cs[k], um)
                        /\ SubSeq(out, BlockStart(cs, k) + 1, BlockStart(cs, k + 1) - 1)
                                = Turns(cs[k][2])
                /\ out[end].role = "system"
                /\ out[end].content[1] = "Personality: " \o PERSONALITIES["default"].name
                /\ SubSeq(out, end + 1, Len(out)) = own

\* On both backends two other users contribute to the context of a user, one
\* of them with more than three messages, a system-role one among the last
\* three.
C12_Witness ==
    \E u \in Speakers :
        \A st \in StorageTypes :
            LET cs == Contributors(get_all_conversations(st, Store(st)), u)
            IN  /\ Len(cs) = 2
                /\ \E k \in 1..2 :
                        /\ Len(cs[k][2]) > 3
                        /\ \E i \in 2..4 : cs[k][2][i].role = "system"

\* The lines "- User <id>: <name>" of the entries of a mapping.
UserLines(user_mapping) ==
    [i \in 1..Len(user_mapping) |->
        "- User " \o user_mapping[i][1] \o ": " \o user_mapping[i][2]]

\* What follows the personality prompt in the system text, as claimed: the
\* new-user directive iff is_new_user, the line naming the current user iff a
\* name is given, and, iff the mapping has more than one entry, a block that
\* enumerates the users other than the current one.
ClaimedSystemTail(current_user_id, current_username, user_mapping, is_new_user) ==
    (IF is_new_user THEN <<NEW_USER_DIRECTIVE>> ELSE <<>>)
        \o (IF current_username # None
            THEN <<"The current user you're talking to is named " \o current_username \o ".">>
            ELSE <<>>)
        \o (IF Len(user_mapping) > 1
            THEN <<"Other users in the conversation include:">>
                    \o UserLines(DictWithout(user_mapping, current_user_id))
                    \o <<"When responding, you can reference users by their names rather than their IDs.">>
            ELSE <<>>)

\* C13 (system-text composition): for the mapping the ask handler passes,
\* the synthesized system text is the personality prompt followed, in this
\* order, by the new-user directive iff is_new_user, the line naming the
\* current user iff a display name is given, and a block enumerating users
\* iff the mapping has more than one entry, which lists only users other
\* than the current user.
C13_SystemTextComposition ==
    \A st \in StorageTypes, u \in Users, is_new_user \in BOOLEAN :
      \A current_username \in {DisplayName[u], None} :
        LET um == ask_user_mapping(st, Store(st), u, DisplayName[u])
            data == personality_data("default")
            text == enhance_system_prompt_with_usernames(data.system_prompt, "default",
                        data.name, current_username, um, is_new_user)
        IN  /\ text[2] = data.system_prompt
            /\ SubSeq(text, 3, Len(text))
                    = ClaimedSystemTail(u, current_username, um, is_new_user)

\* What the store holds of a user besides the messages: personality, display
\* name and the value of every metadata key.
Profile(st, S, u) ==
    [personality |-> get_user_personality(st, S, u).ret,
     username |-> get_username(st, S, u),
     metadata |-> [k \in Keys |-> get_user_metadata(st, S, u, k).ret]]

\* C14 (reset): for an existing user u in any state, after
\* reset_user_memory(u) the history of u is empty and no message of u is
\* stored, user_exists(u) is still true with one record, and personality,
\* display name and metadata of u are what they were, on both backends.
C14_Reset ==
    \A st \in StorageTypes, u \in Users :
        user_exists(st, Store(st), u) =>
            LET after == reset_user_memory(st, Store(st), u)
            IN  /\ get_conversation_history(st, after, u, TRUE) = <<>>
                /\ message_count(st, after, u) = 0
                /\ user_exists(st, after, u)
                /\ record_count(st, after, u) = 1
                /\ Profile(st, after, u) = Profile(st, Store(st), u)

\* A user with a display name, a stored message and a set metadata key on
\* both backends, with a further operation to come.
C14_Witness ==
    \E u \in Users, k \in Keys :
        /\ nops < MaxOps
        /\ \A st \in StorageTypes :
            /\ user_exists(st, Store(st), u)
            /\ message_count(st, Store(st), u) > 0
            /\ get_username(st, Store(st), u) \in Names
            /\ ~NeverSet(st, Store(st), u, k)

\* C15 (delete): after delete_user_data(u), user_exists(u) is false, no
\* message and no metadata entry of u remains, and get_all_conversations and
\* get_all_usernames have no entry for u, on both backends; on an absent user
\* the store is left as it was.
C15_Delete ==
    \A st \in StorageTypes, u \in Users :
        LET after == delete_user_data(st, Store(st), u)
            gc == get_all_conversations(st, after)
            um == get_all_usernames(st, after)
        IN  /\ ~user_exists(st, after, u)
            /\ message_count(st, after, u) = 0
            /\ \A k \in Keys : NeverSet(st, after, u, k)
            /\ \A i \in 1..Len(gc) : gc[i][1] # u
            /\ \A i \in 1..Len(um) : um[i][1] # u
            /\ ~user_exists(st, Store(st), u) => after = Store(st)

\* On both backends one user holds a message and a metadata entry while the
\* other user is absent, with a further operation to come.
C15_Witness ==
    \E u \in Users, w \in Users, k \in Keys :
        /\ nops < MaxOps
        /\ \A st \in StorageTypes :
            /\ message_count(st, Store(st), u) > 0
            /\ ~NeverSet(st, Store(st), u, k)
            /\ ~user_exists(st, Store(st), w)

\* C16 (unknown personality fallback): set_user_personality stores any id
\* without validation, and with an id that is not in PERSONALITIES the
\* composed prompt is the one of 'default', and 'personality current' shows
\* the name and the system prompt of the 'default' entry.
C16_UnknownPersonalityFallback ==
    \A st \in StorageTypes, u \in Users, p \in PersonalityIds :
        LET after == set_user_personality(st, Store(st), u, p)
            messages == get_conversation_history(st, after, u, TRUE)
            gc == get_all_conversations(st, after)
            um == ask_user_mapping(st, after, u, DisplayName[u])
        IN  /\ get_user_personality(st, after, u).ret = p
            /\ p \notin DOMAIN PERSONALITIES =>
                /\ generate_response_messages(messages, p, gc, u, DisplayName[u], um, FALSE)
                    = generate_response_messages(messages, "default", gc, u,
                                                 DisplayName[u], um, FALSE)
                /\ personality_current(st, after, u).embed
                    = [name |-> PERSONALITIES["default"].name,
                       description |-> PERSONALITIES["default"].system_prompt,
                       id |-> p]

\* A user's stored personality is an id that PERSONALITIES does not hold, on
\* both backends.
C16_Witness ==
    \E u \in Users :
        \A st \in StorageTypes :
            /\ user_exists(st, Store(st), u)
            /\ get_user_personality(st, Store(st), u).ret \notin DOMAIN PERSONALITIES

\* The roles of the messages a store holds.
StoredRoles(st, S) ==
    IF st = "sqlite" THEN {S.messages[i].role : i \in 1..Len(S.messages)}
    ELSE UNION {{S[i].messages[j].role : j \in 1..Len(S[i].messages)} : i \in 1..Len(S)}

\* C17 (no persisted system messages): in every state reachable through the
\* command handlers every persisted message has role user or assistant, on
\* both backends.
C17_NoPersistedSystemMessages ==
    \A st \in StorageTypes : StoredRoles(st, Store(st)) \subseteq {"user", "assistant"}

\* An ask was answered while another user had a history: its prompt held the
\* synthesized system message and a shared-context marker, and the response
\* is stored, on both backends.
C17_Witness ==
    \E u \in Users, w \in Users :
        \A st \in StorageTypes :
            /\ u # w
            /\ get_conversation_history(st, Store(st), w, FALSE) # <<>>
            /\ \E i \in 1..Len(get_conversation_history(st, Store(st), u, FALSE)) :
                    get_conversation_history(st, Store(st), u, FALSE)[i].role = "assistant"

\* a is b with some of its elements left out.
RECURSIVE IsSubSeq(_, _)
IsSubSeq(a, b) ==
    IF a = <<>> THEN TRUE
    ELSE IF b = <<>> THEN FALSE
    ELSE IF Head(a) = Head(b) THEN IsSubSeq(Tail(a), Tail(b))
    ELSE IsSubSeq(a, Tail(b))

\* C18 (message immutability): on both backends the history read with
\* include_usernames=False, also by 'memory view', holds messages exactly as
\* they were appended, in append order, whatever prefixed reads and
\* operations came between, and a change of the display name leaves it as
\* it is.
C18_MessageImmutability ==
    \A st \in StorageTypes, u \in Users :
        LET stored == get_conversation_history(st, Store(st), u, FALSE)
        IN  /\ IsSubSeq(stored, appended[st][u])
            /\ memory_view(st, Store(st), u).history_for_file = stored
            /\ \A username \in Names \cup {"zed"} :
                    get_conversation_history(st,
                        update_username(st, Store(st), u, username), u, FALSE) = stored

\* On both backends a user with a display name holds a user message that a
\* read with include_usernames=True prefixes.
C18_Witness ==
    \E u \in Users :
        \A st \in StorageTypes :
            /\ get_username(st, Store(st), u) \in Names
            /\ get_conversation_history(st, Store(st), u, FALSE) # <<>>
            /\ memory_view(st, Store(st), u).history_for_embed
                    # memory_view(st, Store(st), u).history_for_file

\* C19 (get_all_conversations agrees with get_conversation_history): for
\* every user with stored messages, the entry of get_all_conversations is the
\* sequence of (role, content) that get_conversation_history returns with
\* include_usernames=False, on both backends.
C19_AllConversationsAgree ==
    \A st \in StorageTypes, u \in Users :
        message_count(st, Store(st), u) > 0 =>
            LET gc == get_all_conversations(st, Store(st))
            IN  /\ Cardinality({i \in 1..Len(gc) : gc[i][1] = u}) = 1
                /\ \A i \in 1..Len(gc) :
                        gc[i][1] = u =>
                            gc[i][2] = get_conversation_history(st, Store(st), u, FALSE)

\* On both backends one user holds two messages and the other user one, all
\* stored under the same timestamp.
C19_Witness ==
    \E u \in Users, w \in Users :
        /\ u # w
        /\ \A i \in 1..Len(db.messages) : db.messages[i].timestamp = db.messages[1].timestamp
        /\ \A st \in StorageTypes :
            /\ message_count(st, Store(st), u) = 2
            /\ message_count(st, Store(st), w) = 1

\* C20 (corrupt document store): with the json backend, when memory.json
\* cannot be parsed, every operation completes without raising and behaves
\* as on empty state: history empty, personality 'default', metadata absent,
\* user_exists false.
C20_CorruptStore ==
    js \in CorruptFiles =>
        LET loaded == _get_json_data(js)
        IN  /\ loaded.raised = None
            /\ \A u \in Users :
                /\ js_get_conversation_history(loaded.data, u, FALSE) = <<>>
                /\ js_get_user_personality(loaded.data, u).ret = "default"
                /\ \A k \in Keys : js_get_user_metadata(loaded.data, u, k).ret = PyNone
                /\ ~js_user_exists(loaded.data, u)

\* C21 (storage failure propagation): when memory.json cannot be read (it
\* is not there, or its bytes are not text), the operation signals a failure
\* to its caller and never returns a normal result in its place.
C21_StorageFailurePropagation ==
    js \in {NoFile, UndecodableBytes} => _get_json_data(js).raised # None

\* C22 (memory delete): after the 'delete' subcommand of the memory command
\* is handled for a user, user_exists is false for that user and their
\* history is empty.
C22_MemoryDelete ==
    \A st \in StorageTypes, u \in Users :
        LET after == memory_delete(st, Store(st), u)
        IN  /\ ~user_exists(st, after, u)
            /\ get_conversation_history(st, after, u, FALSE) = <<>>

\* The message list that the suspended ask i composes when it resumes on the
\* store of backend st as it is now.
Composed(st, i) ==
    ask_messages(st, Store(st), pending[i].user_id, pending[i].username, pending[i][st])

\* The in-flight user message of the suspended ask i, as a read with
\* usernames returns it.
InFlight(st, i) ==
    WithUsername([role |-> "user", content |-> pending[i][st].formatted_message],
                 pending[i].username)

\* C23 (ask ordering): the incoming user message is appended before the
\* history is fetched, with no other handler in between, so when
\* MAX_CONTEXT_LENGTH >= 1 the composed message list of every ask in flight
\* ends with its in-flight user message, whatever other asks are in flight.
C23_AskOrdering ==
    \A st \in StorageTypes, i \in 1..Len(pending) :
        MAX_CONTEXT_LENGTH >= 1 =>
            /\ Composed(st, i) # <<>>
            /\ Composed(st, i)[Len(Composed(st, i))] = InFlight(st, i)

\* C24 (reply persistence): an assistant message is appended to the history
\* of the asking user if and only if the generator returned non-empty text;
\* when it returned nothing, the store is left as it is (the user message
\* stays, no assistant message is added) and the apology text is sent.
C24_ReplyPersistence ==
    \A st \in StorageTypes, i \in 1..Len(pending), r \in Replies \cup {<<>>} :
        LET u == pending[i].user_id
            before == get_conversation_history(st, Store(st), u, FALSE)
            S == ask_respond(st, Store(st), u, r, clock, MAX_CONTEXT_LENGTH)
            after == get_conversation_history(st, S, u, FALSE)
        IN  IF r # <<>>
            THEN /\ after = Window(Append(before, [role |-> "assistant", content |-> r]),
                                   MAX_CONTEXT_LENGTH)
                 /\ ask_send_response(r) = r
            ELSE /\ S = Store(st)
                 /\ after = before
                 /\ ask_send_response(r) = APOLOGY

\* C25 (reply adjacency under concurrency): when two asks of the same user
\* are in flight at once and MAX_CONTEXT_LENGTH >= 2, the reply of each is
\* stored directly after the user message it was generated for.
C25_ReplyAdjacency ==
    \A st \in StorageTypes, i \in 1..Len(pending), j \in 1..Len(pending), r \in Replies :
        (i # j /\ pending[i].user_id = pending[j].user_id /\ MAX_CONTEXT_LENGTH >= 2) =>
            LET u == pending[i].user_id
                S == ask_respond(st, Store(st), u, r, clock, MAX_CONTEXT_LENGTH)
                after == get_conversation_history(st, S, u, FALSE)
            IN  /\ Len(after) >= 2
                /\ after[Len(after)] = [role |-> "assistant", content |-> r]
                /\ after[Len(after) - 1]
                        = [role |-> "user", content |-> pending[i][st].formatted_message]

\* C26 (reset versus in-flight ask): when reset_user_memory(u) completes
\* while an ask of u is in flight, the reply of that ask, which began before
\* the reset, is never appended to the reset history: with no ask begun
\* after the reset, the history of u stays empty.
C26_ResetVersusAsk ==
    \A st \in StorageTypes, i \in 1..Len(pending), r \in Replies \cup {<<>>} :
        LET u == pending[i].user_id
            reset == reset_user_memory(st, Store(st), u)
            S == ask_respond(st, reset, u, r, clock, MAX_CONTEXT_LENGTH)
        IN  get_conversation_history(st, S, u, FALSE) = <<>>

\* What the reads return of user b on the store S.
ViewOf(st, S, b) ==
    [history |-> get_conversation_history(st, S, b, FALSE),
     profile |-> Profile(st, S, b),
     user_exists |-> user_exists(st, S, b),
     message_count |-> message_count(st, S, b)]

\* C27 (per-user isolation): from every reachable state that a further
\* operation can follow and on both backends, an operation addressed to
\* user a (add_message, set_user_personality, update_username,
\* set_user_metadata, reset_user_memory, delete_user_data, initialize_user)
\* leaves the history, personality, display name and metadata of every
\* other user b unchanged.
C27_PerUserIsolation ==
    \A st \in StorageTypes, a \in Users, b \in Users :
        (a # b /\ nops < MaxOps) =>
            LET S == Store(st)
                before == ViewOf(st, S, b)
                after ==
                    {add_message(st, S, a, role, t, username, clock, MAX_CONTEXT_LENGTH) :
                        role \in Roles, t \in Texts, username \in Names \cup {None}}
                    \cup {set_user_personality(st, S, a, p) : p \in PersonalityIds}
                    \cup {update_username(st, S, a, username) : username \in Names}
                    \cup {initialize_user(st, S, a, username) : username \in Names}
                    \cup {set_user_metadata(st, S, a, k, v) : k \in Keys, v \in MetaValues}
                    \cup {reset_user_memory(st, S, a), delete_user_data(st, S, a)}
            IN  \A T \in after : ViewOf(st, T, b) = before

\* On both backends user b holds a message under a display name, user a
\* holds a message too, and a further operation is to come.
C27_Witness ==
    \E a \in Users, b \in Users, k \in Keys :
        /\ a # b
        /\ nops < MaxOps
        /\ \A st \in StorageTypes :
            /\ message_count(st, Store(st), a) > 0
            /\ message_count(st, Store(st), b) > 0
            /\ get_username(st, Store(st), b) \in Names

\* C28 (trim for every bound): for every configured MAX_CONTEXT_LENGTH >= 0,
\* 0 included, both backends hold at most MAX_CONTEXT_LENGTH messages of the
\* user after add_message returns.
C28_TrimEveryBound ==
    \A st \in StorageTypes, u \in Users, role \in Roles, t \in Texts :
        message_count(st, add_message(st, Store(st), u, role, t, None, clock,
                                      MAX_CONTEXT_LENGTH), u) <= MAX_CONTEXT_LENGTH

\* Gemini gave a text: it is configured, the request did not fail, and the
\* text is not empty.
GeminiAnswers(gemini) ==
    gemini.configured /\ gemini.raises = NoException /\ gemini.text # <<>>

\* C29 (generator fallback order): generate_response asks Gemini first, with
\* the composed message list, and asks LM Studio, with the same list, only
\* when Gemini is not configured, fails or returns empty text; the result is
\* the text of exactly one backend, it is None when both fail, and no
\* exception escapes.
C29_GeneratorFallbackOrder ==
    \A st \in StorageTypes, i \in 1..Len(pending) :
        \A messages \in {Composed(st, i)} :
            \A gemini \in GeminiBehaviours, backend \in LmStudioBehaviours :
                LET out == generate_response(messages, gemini, backend)
                    to_gemini == [to |-> "gemini", messages |-> messages]
                    to_lm_studio == [to |-> "lmstudio", messages |-> messages]
                IN  /\ out.raised = NoException
                    /\ out.requests =
                            (IF gemini.configured THEN <<to_gemini>> ELSE <<>>)
                                \o (IF GeminiAnswers(gemini) THEN <<>> ELSE <<to_lm_studio>>)
                    /\ out.ret =
                            IF GeminiAnswers(gemini) THEN ReturnStr(gemini.text)
                            ELSE IF backend.raises = NoException /\ backend.has_choices
                                 THEN ReturnStr(backend.text)
                                 ELSE ReturnNone

\* An ask is in flight whose composed list holds the shared context of
\* another user before its own part.
C29_Witness ==
    \E i \in 1..Len(pending) :
        \A st \in StorageTypes :
            /\ Len(Composed(st, i)) >= 3
            /\ Composed(st, i)[1].role = "system"
            /\ Composed(st, i)[Len(Composed(st, i))].role = "user"

\* The personality ids the store of a backend holds.
StoredPersonalities(st) ==
    IF st = "sqlite" THEN {db.users[i].personality : i \in 1..Len(db.users)}
    ELSE {js[i].personality : i \in 1..Len(js)}

\* C30 (personality set validation): 'personality set' with an id that is
\* not in the PERSONALITIES registry changes nothing (the stored personality
\* stays and no user record is created), and in every state reachable
\* through the commands every stored personality id is a registry id.
C30_PersonalitySetValidation ==
    \A st \in StorageTypes :
        /\ StoredPersonalities(st) \subseteq DOMAIN PERSONALITIES
        /\ \A u \in Users, personality_name \in PersonalityIds \ DOMAIN PERSONALITIES :
                personality_set(st, Store(st), u, personality_name) = Store(st)

\* One user has chosen a personality other than the default and the other
\* user has no record, on both backends, with a further command to come.
C30_Witness ==
    \E u \in Users, w \in Users :
        /\ nops < MaxCmds
        /\ \A st \in StorageTypes :
            /\ user_exists(st, Store(st), u)
            /\ get_user_personality(st, Store(st), u).ret = "sarcastic"
            /\ ~user_exists(st, Store(st), w)
====
